---- MODULE Spec2Model ----
(***************************************************************************)
(* count_lines.py: walk the tree under ".", keep the regular files with an *)
(* allowed extension and no ignored path component, count their lines,     *)
(* sort the rows by count, total them per parent directory and print.      *)
(*                                                                         *)
(* Representation.  A file name is a sequence of tokens in which "." is a  *)
(* token of its own ("a.ts" is <<"a", ".", "ts">>, ".git" is               *)
(* <<".", "git">>); the other tokens hold neither "." nor "/".  A Path is  *)
(* its tuple of names (Path.parts).  str(path) is the token sequence with  *)
(* "/" between the names.  File content is a sequence of bytes: "c" an     *)
(* ordinary character, "LF", "CR", and "XX" a byte that is not valid       *)
(* UTF-8.                                                                  *)
(***************************************************************************)
EXTENDS Integers, Sequences, FiniteSets

VARIABLES
    fs,          \* the tree under the scan root: a set of entries
    todo,        \* entries root.rglob('*') has not yielded yet
    pc,          \* position of main / count_lines
    cur,         \* main's loop variable `path` (its parts)
    handles,     \* file objects currently open
    exc,         \* what raised in the current count_lines call: "none", "open", "read"
    lines,       \* main's local `lines`: what count_lines last returned
    files,       \* main's list `files` of <<str(path), lines>>
    dir_totals,  \* main's defaultdict, in insertion order: <<dir_name, total>>
    out,         \* what has been printed
    raised       \* the paths for which count_lines caught an exception

vars == <<fs, todo, pc, cur, handles, exc, lines, files, dir_totals, out, raised>>

(* ---------------------------- bounds ---------------------------------- *)
\* most files (besides their directories) in a generated tree
MaxFiles == 3
\* longest content of the file in the one-file trees
MaxLen == 3

(* ---------------------------- constants ------------------------------- *)
EXTENSIONS ==
    { <<".", "svelte">>, <<".", "ts">>, <<".", "rs">>, <<".", "js">>,
      <<".", "css">>, <<".", "html">>, <<".", "json">> }

IGNORE_DIRS ==
    { <<"node_modules">>, <<"target">>, <<"dist">>, <<".", "svelte-kit">>,
      <<".", "git">>, <<"build">> }

(* ---------------------------- pathlib --------------------------------- *)
Max(S) == CHOOSE x \in S : \A y \in S : y <= x

\* str.rfind('.') on a name, 1-based; 0 when there is no dot
rfind_dot(name) ==
    LET I == { i \in 1..Len(name) : name[i] = "." }
    IN  IF I = {} THEN 0 ELSE Max(I)

\* PurePath.suffix: the last dot and what follows it, unless that dot is the
\* first or the last character of the name
suffix(parts) ==
    IF parts = <<>> THEN <<>>
    ELSE LET name == parts[Len(parts)]
             i    == rfind_dot(name)
         IN  IF 1 < i /\ i < Len(name) THEN SubSeq(name, i, Len(name)) ELSE <<>>

\* faulty variant: anything that is not a directory passes
is_file_not_dir(e) == e.kind # "dir"

\* Path.is_file(): the entry is (or resolves to) a regular file
is_file(e) == e.kind = "file"

\* faulty variant: the top-level directory instead of the immediate parent
parent_top(parts) == IF Len(parts) <= 1 THEN <<>> ELSE <<parts[1]>>

\* PurePath.parent
parent(parts) == IF parts = <<>> THEN <<>> ELSE SubSeq(parts, 1, Len(parts) - 1)

\* str(path): the names joined by "/", "." for the empty path
RECURSIVE str(_)
str(parts) ==
    IF parts = <<>> THEN <<".">>
    ELSE IF Len(parts) = 1 THEN parts[1]
    ELSE str(SubSeq(parts, 1, Len(parts) - 1)) \o <<"/">> \o parts[Len(parts)]

\* Path(s): the string split at "/"; "." is the empty path
RECURSIVE split(_, _, _)
split(s, i, name) ==
    IF i > Len(s) THEN (IF name = <<>> THEN <<>> ELSE <<name>>)
    ELSE IF s[i] = "/" THEN (IF name = <<>> THEN <<>> ELSE <<name>>) \o split(s, i + 1, <<>>)
    ELSE split(s, i + 1, Append(name, s[i]))

Path(s) == IF s = <<".">> THEN <<>> ELSE split(s, 1, <<>>)

(* ---------------------------- count_lines ----------------------------- *)
\* errors='ignore': bytes that do not decode are dropped
decode(bytes) == SelectSeq(bytes, LAMBDA b : b # "XX")

Min(S) == CHOOSE x \in S : \A y \in S : x <= y

\* f.readline() from position i: the position of the last character of the
\* line, which ends with "\n", "\r\n" or "\r" (universal newlines) or at the
\* end of the text
readline_end(s, i) ==
    LET T == { j \in i..Len(s) : s[j] \in { "LF", "CR" } }
    IN  IF T = {} THEN Len(s)
        ELSE LET j == Min(T)
             IN  IF s[j] = "CR" /\ j < Len(s) /\ s[j + 1] = "LF" THEN j + 1 ELSE j

\* faulty variant: a last line without terminator is not counted
RECURSIVE iter_lines_terminated(_, _)
iter_lines_terminated(s, i) ==
    IF i > Len(s) \/ s[readline_end(s, i)] \notin { "LF", "CR" } THEN 0
    ELSE 1 + iter_lines_terminated(s, readline_end(s, i) + 1)

\* for _ in f: one item per line read, until the text is exhausted
RECURSIVE iter_lines(_, _)
iter_lines(s, i) ==
    IF i > Len(s) THEN 0
    ELSE 1 + iter_lines(s, readline_end(s, i) + 1)

\* sum(1 for _ in f)
sum_lines(bytes) == iter_lines(decode(bytes), 1)

Entry(parts) == CHOOSE e \in fs : e.parts = parts

(* ---------------------------- sorting --------------------------------- *)
\* list.sort / sorted with key=lambda x: -x[1]: stable, ascending in the key
RECURSIVE insert_by_key(_, _)
insert_by_key(sorted, x) ==
    IF sorted = <<>> THEN <<x>>
    ELSE LET last == sorted[Len(sorted)]
         IN  IF -last[2] <= -x[2] THEN Append(sorted, x)
             ELSE Append(insert_by_key(SubSeq(sorted, 1, Len(sorted) - 1), x), last)

RECURSIVE sort_by_key(_)
sort_by_key(seq) ==
    IF seq = <<>> THEN <<>>
    ELSE insert_by_key(sort_by_key(SubSeq(seq, 1, Len(seq) - 1)), seq[Len(seq)])

\* faulty variant: the key without its minus sign, so the smallest count comes first
files_sort_ascending(fl) ==
    LET s == sort_by_key(fl) IN [k \in 1..Len(s) |-> s[Len(s) + 1 - k]]

files_sort(fl) == sort_by_key(fl)

\* faulty variant: the items in insertion order
dir_totals_unsorted(items) == items

sorted_dir_totals(items) == sort_by_key(items)

(* ---------------------------- grouping -------------------------------- *)
\* faulty variant: = instead of +=
add_total_assign(totals, dir_name, n) ==
    IF \E k \in 1..Len(totals) : totals[k][1] = dir_name
    THEN [k \in 1..Len(totals) |->
            IF totals[k][1] = dir_name THEN <<dir_name, n>> ELSE totals[k]]
    ELSE Append(totals, <<dir_name, n>>)

\* dir_totals[dir_name] += lines on a defaultdict(int)
add_total(totals, dir_name, n) ==
    IF \E k \in 1..Len(totals) : totals[k][1] = dir_name
    THEN [k \in 1..Len(totals) |->
            IF totals[k][1] = dir_name THEN <<dir_name, totals[k][2] + n>> ELSE totals[k]]
    ELSE Append(totals, <<dir_name, n>>)

RECURSIVE group(_, _)
group(fl, totals) ==
    IF fl = <<>> THEN totals
    ELSE group(Tail(fl), add_total(totals, str(parent(Path(fl[1][1]))), fl[1][2]))

RECURSIVE sum_second(_)
sum_second(seq) == IF seq = <<>> THEN 0 ELSE seq[1][2] + sum_second(Tail(seq))

(* ---------------------------- file trees ------------------------------ *)
File(parts, content) == [parts |-> parts, kind |-> "file", content |-> content]
Dir(parts) == [parts |-> parts, kind |-> "dir", content |-> <<>>]
\* neither a regular file nor a directory (a FIFO, a socket, a dangling link)
Special(parts) == [parts |-> parts, kind |-> "other", content |-> <<>>]

\* n terminated lines
RECURSIVE Text(_)
Text(n) == IF n = 0 THEN <<>> ELSE <<"c", "LF">> \o Text(n - 1)

Ancestors(e) == { Dir(SubSeq(e.parts, 1, k)) : k \in 1..(Len(e.parts) - 1) }
Tree(S) == S \cup UNION { Ancestors(e) : e \in S }

a_ts == <<"a", ".", "ts">>
b_js == <<"b", ".", "js">>
README_md == <<"README", ".", "md">>
c_js == <<"c", ".", "js">>
node_modules == <<"node_modules">>

\* the tree of the documented scenario
ScenarioTree ==
    Tree({ File(<<a_ts>>, Text(10)), File(<<b_js>>, Text(5)),
           File(<<README_md>>, Text(3)), File(<<node_modules, c_js>>, Text(100)) })

\* the entries the generated trees are made of
Candidates ==
    { File(<<a_ts>>, Text(10)),
      File(<<b_js>>, Text(4) \o <<"c">>),
      File(<<README_md>>, Text(3)),
      File(<<<<"A", ".", "TS">>>>, Text(7)),
      File(<<<<"sub">>, <<"x", ".", "rs">>>>, Text(12)),
      File(<<<<"sub">>, <<"deep">>, <<"y", ".", "css">>>>, Text(5)),
      File(<<<<"empty">>, <<"e", ".", "svelte">>>>, <<>>),
      File(<<node_modules, c_js>>, Text(100)),
      File(<<node_modules, <<"pkg">>, <<"lib">>, <<"d", ".", "json">>>>, Text(4)) }

\* one file under each of the other ignored names, and a name that only
\* resembles one
IgnoredTree ==
    Tree({ File(<<<<"target">>, <<"r", ".", "rs">>>>, Text(2)),
           File(<<<<"dist">>, <<"m", ".", "js">>>>, Text(3)),
           File(<<<<".", "svelte-kit">>, <<"s", ".", "ts">>>>, Text(4)),
           File(<<<<".", "git">>, <<"h", ".", "json">>>>, Text(6)),
           File(<<<<"build">>, <<"o", ".", "css">>>>, Text(8)),
           File(<<<<"dist", ".", "js">>>>, Text(1)) })

\* entries that fail the is_file or the suffix test: a hidden file named like
\* an extension, a FIFO and a directory with an allowed extension, an
\* extension in upper case; beside one file that passes
OddTree ==
    Tree({ File(<<<<".", "ts">>>>, Text(1)),
           Special(<<<<"pipe", ".", "ts">>>>),
           File(<<<<"conf", ".", "json">>, <<"notes", ".", "md">>>>, Text(6)),
           File(<<<<"B", ".", "JS">>>>, Text(2)),
           File(<<a_ts>>, Text(10)) })

Bytes == { "c", "LF", "CR", "XX" }
Contents == UNION { [1..n -> Bytes] : n \in 0..MaxLen }

Trees ==
    { Tree(S) : S \in { T \in SUBSET Candidates : Cardinality(T) <= MaxFiles } }
    \cup { ScenarioTree, IgnoredTree, OddTree }
    \cup { { File(<<a_ts>>, c) } : c \in Contents }

(* ---------------------------- the program ----------------------------- *)
Init ==
    /\ fs \in Trees
    /\ todo = fs
    /\ pc = "walk"
    /\ cur = <<>>
    /\ handles = {}
    /\ exc = "none"
    /\ lines = 0
    /\ files = <<>>
    /\ dir_totals = <<>>
    /\ out = [printed |-> FALSE, files |-> <<>>, dirs |-> <<>>, total |-> 0]
    /\ raised = {}

\* faulty variant: only the immediate parent is compared with IGNORE_DIRS
kept_parent_only(e) ==
    /\ is_file(e)
    /\ suffix(e.parts) \in EXTENSIONS
    /\ ~ (Len(e.parts) >= 2 /\ e.parts[Len(e.parts) - 1] \in IGNORE_DIRS)

\* faulty variant: the IGNORE_DIRS test is left out
kept_no_ignore(e) ==
    /\ is_file(e)
    /\ suffix(e.parts) \in EXTENSIONS

\* the filter of main's loop body
kept(e) ==
    /\ is_file(e)
    /\ suffix(e.parts) \in EXTENSIONS
    /\ ~ \E d \in IGNORE_DIRS : \E k \in 1..Len(e.parts) : e.parts[k] = d

\* for path in root.rglob('*'): the next entry, and the filter
Visit ==
    /\ pc = "walk"
    /\ \E e \in todo :
        /\ todo' = todo \ {e}
        /\ IF kept(e)
           THEN cur' = e.parts /\ pc' = "open"
           ELSE UNCHANGED <<cur, pc>>
    /\ UNCHANGED <<fs, handles, exc, lines, files, dir_totals, out, raised>>

\* faulty variant: a file that cannot be opened is skipped, no row is appended
Open_skip ==
    /\ pc = "open"
    /\ \E ok \in BOOLEAN :
        IF ok
        THEN /\ handles' = handles \cup {cur}
             /\ pc' = "read"
             /\ UNCHANGED <<lines, raised, exc>>
        ELSE /\ lines' = 0
             /\ raised' = raised \cup {cur}
             /\ pc' = "walk"
             /\ UNCHANGED <<handles, exc>>
    /\ UNCHANGED <<fs, todo, cur, files, dir_totals, out>>

\* open(file_path, ...): a handle, or an exception caught by `except`
Open ==
    /\ pc = "open"
    /\ \E ok \in BOOLEAN :
        IF ok
        THEN /\ handles' = handles \cup {cur}
             /\ pc' = "read"
             /\ UNCHANGED <<lines, raised, exc>>
        ELSE /\ lines' = 0
             /\ raised' = raised \cup {cur}
             /\ exc' = "open"
             /\ pc' = "append"
             /\ UNCHANGED handles
    /\ UNCHANGED <<fs, todo, cur, files, dir_totals, out>>

\* sum(1 for _ in f): the count, or an exception raised while reading
Read ==
    /\ pc = "read"
    /\ \E ok \in BOOLEAN :
        IF ok
        THEN /\ lines' = sum_lines(Entry(cur).content)
             /\ UNCHANGED <<exc, raised>>
        ELSE /\ exc' = "read"
             /\ raised' = raised \cup {cur}
             /\ UNCHANGED lines
    /\ pc' = "exit"
    /\ UNCHANGED <<fs, todo, cur, handles, files, dir_totals, out>>

\* faulty variant: the file is closed on the normal path only
Exit_leak ==
    /\ pc = "exit"
    /\ handles' = IF exc # "none" THEN handles ELSE handles \ {cur}
    /\ lines' = IF exc # "none" THEN 0 ELSE lines
    /\ pc' = "append"
    /\ UNCHANGED <<fs, todo, cur, exc, files, dir_totals, out, raised>>

\* leaving the with block closes the file; a propagating exception then
\* reaches `except: return 0`
Exit ==
    /\ pc = "exit"
    /\ handles' = handles \ {cur}
    /\ lines' = IF exc # "none" THEN 0 ELSE lines
    /\ pc' = "append"
    /\ UNCHANGED <<fs, todo, cur, exc, files, dir_totals, out, raised>>

\* count_lines has returned: files.append((str(path), lines))
AppendRow ==
    /\ pc = "append"
    /\ files' = Append(files, <<str(cur), lines>>)
    /\ exc' = "none"
    /\ pc' = "walk"
    /\ UNCHANGED <<fs, todo, cur, handles, lines, dir_totals, out, raised>>

\* the walk is exhausted: files.sort(key=lambda x: -x[1])
Sort ==
    /\ pc = "walk"
    /\ todo = {}
    /\ files' = files_sort(files)
    /\ pc' = "group"
    /\ UNCHANGED <<fs, todo, cur, handles, exc, lines, dir_totals, out, raised>>

\* for path, lines in files: dir_totals[str(Path(path).parent)] += lines
Group ==
    /\ pc = "group"
    /\ dir_totals' = group(files, dir_totals)
    /\ pc' = "print"
    /\ UNCHANGED <<fs, todo, cur, handles, exc, lines, files, out, raised>>

\* the three printed sections
Report ==
    /\ pc = "print"
    /\ out' = [printed |-> TRUE,
               files   |-> [k \in 1..Len(files) |-> <<files[k][2], files[k][1]>>],
               dirs    |-> LET s == sorted_dir_totals(dir_totals)
                           IN  [k \in 1..Len(s) |-> <<s[k][2], s[k][1] \o <<"/">>>>],
               total   |-> sum_second(files)]
    /\ pc' = "done"
    /\ UNCHANGED <<fs, todo, cur, handles, exc, lines, files, dir_totals, raised>>

Next == Visit \/ Open \/ Read \/ Exit \/ AppendRow \/ Sort \/ Group \/ Report

Spec == Init /\ [][Next]_vars

(* ---------------------------- vocabulary of the properties ------------ *)
AllowedExt == { "svelte", "ts", "rs", "js", "css", "html", "json" }

IgnoredNames ==
    { <<"node_modules">>, <<"target">>, <<"dist">>, <<".", "svelte-kit">>,
      <<".", "git">>, <<"build">> }

\* the name ends in a dot and an allowed extension, after a non-empty stem
HasAllowedExt(e) ==
    LET name == e.parts[Len(e.parts)]
    IN  /\ Len(name) >= 3
        /\ name[Len(name) - 1] = "."
        /\ name[Len(name)] \in AllowedExt

HasIgnoredPart(e) == \E k \in 1..Len(e.parts) : e.parts[k] \in IgnoredNames

Qualifying(e) == e.kind = "file" /\ HasAllowedExt(e) /\ ~HasIgnoredPart(e)

Failed(e) == e.parts \in raised

\* line terminators of a text: "\n", "\r\n" (one terminator) and a lone "\r"
Terminators(s) ==
    Cardinality({ i \in 1..Len(s) : s[i] = "LF" })
    + Cardinality({ i \in 1..Len(s) : s[i] = "CR" /\ (i = Len(s) \/ s[i + 1] # "LF") })

\* text follows the last terminator
OpenTail(s) == s # <<>> /\ s[Len(s)] \notin { "LF", "CR" }

LineItems(e) ==
    LET s == decode(e.content)
    IN  Terminators(s) + (IF OpenTail(s) THEN 1 ELSE 0)

\* the count a file is expected to be reported with
Count(e) == IF Failed(e) THEN 0 ELSE LineItems(e)

RECURSIVE SumCount(_)
SumCount(S) ==
    IF S = {} THEN 0
    ELSE LET e == CHOOSE x \in S : TRUE IN Count(e) + SumCount(S \ {e})

RECURSIVE SumFirst(_)
SumFirst(seq) == IF seq = <<>> THEN 0 ELSE seq[1][1] + SumFirst(Tail(seq))

\* the directory a file is expected to be accumulated under, as printed
DirRowOf(e) ==
    (IF Len(e.parts) = 1 THEN <<".">> ELSE str(SubSeq(e.parts, 1, Len(e.parts) - 1)))
    \o <<"/">>

QualifyingFiles == { e \in fs : Qualifying(e) }

Counting == pc \in { "open", "read", "exit", "append" }

(* ---------------------------- C1 -------------------------------------- *)
\* C1: once the report is printed, the sum of the directory totals equals the
\* printed grand total and equals the sum of the per-file counts; with no
\* qualifying file all three are 0 (and both sections are empty).
C1_TotalsAgree ==
    out.printed =>
        /\ SumFirst(out.dirs) = out.total
        /\ SumFirst(out.files) = out.total
        /\ (QualifyingFiles = {} =>
                out.files = <<>> /\ out.dirs = <<>> /\ out.total = 0)

C1_Witness ==
    /\ out.printed
    /\ Len(out.dirs) >= 2
    /\ Len(out.files) > Len(out.dirs)
    /\ out.total > 0

(* ---------------------------- C2 -------------------------------------- *)
\* C2: a file with an ignored name anywhere in its relative path is never
\* counted, has no row in the file list or in the printed file section, no
\* directory row lies under an ignored name, and the printed totals are those
\* of the files outside ignored directories.
C2_IgnoredNeverReported ==
    /\ \A e \in fs : HasIgnoredPart(e) =>
        /\ Counting => cur # e.parts
        /\ \A k \in 1..Len(files) : files[k][1] # str(e.parts)
        /\ \A k \in 1..Len(out.files) : out.files[k][2] # str(e.parts)
        /\ \A k \in 1..Len(out.dirs) : out.dirs[k][2] # str(e.parts) \o <<"/">>
    /\ out.printed =>
        /\ out.total = SumCount({ e \in fs : e.kind = "file" /\ HasAllowedExt(e)
                                             /\ ~HasIgnoredPart(e) })
        /\ SumFirst(out.dirs) = out.total

C2_Witness ==
    /\ out.printed
    /\ out.total > 0
    /\ \E e \in fs :
        /\ e.kind = "file"
        /\ HasAllowedExt(e)
        /\ Len(e.parts) >= 3
        /\ e.parts[1] \in IgnoredNames
        /\ e.parts[Len(e.parts) - 1] \notin IgnoredNames

(* ---------------------------- C3 -------------------------------------- *)
\* C3: an entry that is not a regular file, or whose extension is not one of
\* the seven allowed ones (compared case-sensitively), is never counted, has
\* no row, and adds to no total.
C3_OnlyAllowedFiles ==
    /\ \A e \in fs : (e.kind # "file" \/ ~HasAllowedExt(e)) =>
        /\ Counting => cur # e.parts
        /\ \A k \in 1..Len(files) : files[k][1] # str(e.parts)
        /\ \A k \in 1..Len(out.files) : out.files[k][2] # str(e.parts)
    /\ out.printed =>
        /\ out.total = SumCount(QualifyingFiles)
        /\ SumFirst(out.dirs) = SumCount(QualifyingFiles)

C3_Witness ==
    /\ out.printed
    /\ out.total > 0
    /\ \E e \in fs : e.kind = "file" /\ e.parts[Len(e.parts)] = <<"B", ".", "JS">>
    /\ \E e \in fs : e.kind = "file" /\ e.parts[Len(e.parts)] = <<"notes", ".", "md">>
    /\ \E e \in fs : e.kind = "other" /\ HasAllowedExt(e)
    /\ \E e \in fs : e.kind = "dir" /\ HasAllowedExt(e)

C5_ExactlyQualifyingRows ==
    out.printed =>
        /\ Len(out.files) = Cardinality(QualifyingFiles)
        /\ \A e \in QualifyingFiles :
            \E k \in 1..Len(out.files) : out.files[k] = <<Count(e), str(e.parts)>>
        /\ (fs = ScenarioTree /\ raised = {}) =>
            out = [printed |-> TRUE,
                   files   |-> << <<10, <<"a", ".", "ts">>>>, <<5, <<"b", ".", "js">>>> >>,
                   dirs    |-> << <<15, <<".", "/">>>> >>,
                   total   |-> 15]

C5_Witness == out.printed /\ fs = ScenarioTree /\ raised = {}

(* ---------------------------- C6 -------------------------------------- *)
\* C6: in the printed file section each row's count is at least the next
\* row's count.
C6_FileRowsDescending ==
    out.printed =>
        \A k \in 1..(Len(out.files) - 1) : out.files[k][1] >= out.files[k + 1][1]

C6_Witness ==
    /\ out.printed
    /\ Len(out.files) >= 3
    /\ out.files[1][1] > out.files[2][1]
    /\ out.files[2][1] > out.files[3][1]

(* ---------------------------- C7 -------------------------------------- *)
\* C7: in the printed directory section each row's total is at least the
\* next row's total, whatever the insertion order of dir_totals.
C7_DirRowsDescending ==
    out.printed =>
        \A k \in 1..(Len(out.dirs) - 1) : out.dirs[k][1] >= out.dirs[k + 1][1]

C7_Witness ==
    /\ out.printed
    /\ Len(dir_totals) >= 2
    /\ dir_totals[1][2] < dir_totals[2][2]

(* ---------------------------- C8 -------------------------------------- *)
\* C8 as stated: on a readable file count_lines returns the number of line
\* terminators of the content, whether or not text follows the last one, and
\* never a negative number.
C8_TerminatedSegmentsOnly ==
    (pc = "append" /\ cur \notin raised) =>
        /\ lines = Terminators(decode(Entry(cur).content))
        /\ lines >= 0

\* C8 amended: on a readable file count_lines returns the number of line
\* terminators of the content plus one when text follows the last terminator
\* (or the content has text and no terminator); 0 for empty content; never
\* negative.
C8_LinesIncludingOpenTail ==
    (pc = "append" /\ cur \notin raised) =>
        LET s == decode(Entry(cur).content)
        IN  /\ lines = Terminators(s) + (IF OpenTail(s) THEN 1 ELSE 0)
            /\ (s = <<>> => lines = 0)
            /\ lines >= 0

C8_Witness ==
    /\ pc = "append"
    /\ raised = {}
    /\ LET s == decode(Entry(cur).content)
       IN  Terminators(s) = 1 /\ OpenTail(s) /\ lines = 2

(* ---------------------------- C9 -------------------------------------- *)
\* C9: the directory section has a row for D exactly when some qualifying
\* file has D as its immediate parent, and D's total is the sum of the counts
\* of those files alone; files directly under the root are totalled under ".".
C9_DirectoryRows ==
    out.printed =>
        /\ { out.dirs[k][2] : k \in 1..Len(out.dirs) }
             = { DirRowOf(e) : e \in QualifyingFiles }
        /\ Len(out.dirs) = Cardinality({ DirRowOf(e) : e \in QualifyingFiles })
        /\ \A k \in 1..Len(out.dirs) :
            out.dirs[k][1]
              = SumCount({ e \in QualifyingFiles : DirRowOf(e) = out.dirs[k][2] })
        /\ \A e \in QualifyingFiles : Len(e.parts) = 1 =>
            \E k \in 1..Len(out.dirs) : out.dirs[k][2] = <<".", "/">>

C9_Witness ==
    /\ out.printed
    /\ \E k \in 1..Len(out.dirs) : out.dirs[k] = <<0, <<"empty", "/">>>>
    /\ \E k \in 1..Len(out.dirs) : out.dirs[k] = <<12, <<"sub", "/">>>>
    /\ \E k \in 1..Len(out.dirs) : out.dirs[k] = <<5, <<"sub", "/", "deep", "/">>>>

(* ---------------------------- C10 ------------------------------------- *)
\* C10: at most one file is open at any time; the file count_lines opened is
\* closed, on the normal and on the failure path, before the row is appended
\* and the walk goes on; nothing is open when the report is printed.
C10_OneHandleReleased ==
    /\ Cardinality(handles) <= 1
    /\ pc \in { "read", "exit" } => handles = {cur}
    /\ pc \notin { "read", "exit" } => handles = {}

C10_Witness ==
    /\ pc = "append"
    /\ exc = "read"
    /\ handles = {}
    /\ files # <<>>
    /\ todo # {}

====
